---- MODULE Spec2Model ----
(***************************************************************************)
(* Interval scheduling (elzup/interval-scheduling): the greedy first-fit  *)
(* packer `schedule` (src/core/scheduler.ts), its mapping wrapper         *)
(* `scheduleBy`, and the legacy functions `schedulingPick`, `scheduling`,  *)
(* `schedulingEaseTry` and `schedulingEase` (src/scheduling.ts).          *)
(*                                                                         *)
(* A caller holds one array `items` of ScheduleItem {id, start, end} and   *)
(* calls the library functions on it, one call at a time.  The three       *)
(* looping entry points are modelled one loop iteration per step; the      *)
(* other functions are applied in one step.                                *)
(*                                                                         *)
(* Ids are unique within an input, so the id of the k-th input item is     *)
(* taken to be k.  Column indices are 1-based here (0-based in the code).  *)
(***************************************************************************)
EXTENDS Integers, Sequences, FiniteSets, TLC

\* Bounds of the model.
MaxLen == 3        \* longest input array
MaxTime == 2       \* start and end range over 0..MaxTime
MaxCols == 2       \* largest maxColumns option (0 stands for "not set")

VARIABLES
  items,        \* the caller's input array
  pc,           \* "idle", the function whose loop is running, or "done"
  maxColumns,   \* options.maxColumns of the running `schedule` (0: unset/falsy)
  arr,          \* schedule: sortedItems;  scheduling: arr
  columns,      \* schedule: columns;  scheduling / schedulingEase: ans
  i,            \* schedule: items of sortedItems consumed;  schedulingEase: i
  brk,          \* schedulingEase: the for loop has hit `break`
  trials,       \* schedulingEase: the n of every schedulingEaseTry call made
  result        \* what the last completed call returned

vars == <<items, pc, maxColumns, arr, columns, i, brk, trials, result>>

Time == 0..MaxTime

\* type ScheduleItem = { id, start, end }
ScheduleItem(id, start, end) == [id |-> id, start |-> start, end |-> end]

\* The arrays of n items with unique ids (id k at position k) and
\* <<start, end>> drawn from pairs, in every order.
Arrays(pairs, n) ==
  { [k \in 1..n |-> ScheduleItem(k, f[k][1], f[k][2])] : f \in [1..n -> pairs] }

\* The inputs: up to MaxLen intervals with start <= end, and up to MaxLen - 1
\* intervals with start and end unconstrained (end < start included).
Inputs ==
  UNION ( { Arrays({ q \in Time \X Time : q[1] <= q[2] }, n) : n \in 0..MaxLen }
          \cup { Arrays(Time \X Time, n) : n \in 0..(MaxLen - 1) } )

\* The items of the README's basic usage example (ids a..e as 1..5).
readmeItems ==
  << ScheduleItem(1, 1, 10), ScheduleItem(2, 5, 15), ScheduleItem(3, 10, 20),
     ScheduleItem(4, 12, 20), ScheduleItem(5, 16, 17) >>

\* `undefined`, as returned by Array.prototype.find and last() on no match.
undefined == ScheduleItem(0, 0, 0)

Min(S) == CHOOSE x \in S : \A y \in S : x <= y
Max(S) == CHOOSE x \in S : \A y \in S : x >= y

RECURSIVE Sum(_, _)
Sum(f, n) == IF n = 0 THEN 0 ELSE f[n] + Sum(f, n - 1)

\* Array.prototype.sort with the comparator cmp (a function on pairs of
\* elements): a stable sort (ES2019), so an element's rank is the number of
\* elements that compare smaller, or equal and earlier.
StableSort(a, cmp) ==
  LET rank(k) == Cardinality({ j \in 1..Len(a) :
                     \/ cmp[a[j], a[k]] < 0
                     \/ cmp[a[j], a[k]] = 0 /\ j < k }) + 1
  IN [r \in 1..Len(a) |-> a[CHOOSE k \in 1..Len(a) : rank(k) = r]]

\* The elements of an array.
Elements(a) == { a[k] : k \in 1..Len(a) }

\* Array.prototype.splice(k, 1) (k 1-based here)
Splice(a, k) == [j \in 1..(Len(a) - 1) |-> IF j < k THEN a[j] ELSE a[j + 1]]

(***************************************************************************)
(* src/core/scheduler.ts                                                   *)
(***************************************************************************)

\* the comparator of the sort in schedule
compareStart(a, b) ==
  IF a.start < b.start THEN -1 ELSE IF a.start > b.start THEN 1 ELSE 0

\* [...items].sort(compareStart)
sortByStart(a) ==
  StableSort(a, [x \in Elements(a), y \in Elements(a) |-> compareStart(x, y)])

\* Mutant of sortedCopy: items.sort(...) on the caller's array itself.
sortInPlace(a) == [arg |-> sortByStart(a), sorted |-> sortByStart(a)]

\* const sortedItems = [...items].sort(...): `arg` is the caller's array
\* after the statement, `sorted` the new array.
sortedCopy(a) == [arg |-> a, sorted |-> sortByStart(a)]

\* Mutants of canPlace: the last item's start compared instead of its end;
\* touching intervals refused.
canPlaceByStart(lastItem, newItem) == lastItem.start <= newItem.start
canPlaceStrict(lastItem, newItem) == lastItem.end < newItem.start

canPlace(lastItem, newItem) == lastItem.end <= newItem.start

getItemById(its, id) ==
  IF \E j \in 1..Len(its) : its[j].id = id
  THEN its[Min({ j \in 1..Len(its) : its[j].id = id })]
  ELSE undefined

\* Mutant of findBestColumn: falls back to the first column.
findBestColumnFirst(cols, its, newItem) == 0

\* Returns the 0-based index of the first column that accepts newItem, or -1.
findBestColumn(cols, its, newItem) ==
  LET ok == { c \in 1..Len(cols) :
                /\ Len(cols[c]) > 0
                /\ LET lastItem == getItemById(its, cols[c][Len(cols[c])])
                   IN lastItem # undefined /\ canPlace(lastItem, newItem) }
  IN IF ok = {} THEN -1 ELSE Min(ok) - 1

\* Mutant of placedIn: the last column that accepts the item is taken.
placedInLast(cols, sortedItems, item) ==
  LET ok == { c \in 1..Len(cols) :
                /\ Len(cols[c]) > 0
                /\ LET lastItem == getItemById(sortedItems, cols[c][Len(cols[c])])
                   IN lastItem # undefined /\ canPlace(lastItem, item) }
  IN IF ok = {} THEN 0 ELSE Max(ok)

\* The scan over existing columns in the body of schedule's for loop: the
\* 1-based index of the column the item was pushed to, 0 if not placed.
placedIn(cols, sortedItems, item) ==
  LET ok == { c \in 1..Len(cols) :
                /\ Len(cols[c]) > 0
                /\ LET lastItem == getItemById(sortedItems, cols[c][Len(cols[c])])
                   IN lastItem # undefined /\ canPlace(lastItem, item) }
  IN IF ok = {} THEN 0 ELSE Min(ok)

\* Mutant of placeItem: the limit is tested with > (one column too many).
placeItemOver(cols, sortedItems, item, maxCols) ==
  LET c == placedIn(cols, sortedItems, item)
  IN IF c # 0
     THEN [cols EXCEPT ![c] = Append(@, item.id)]
     ELSE IF maxCols # 0 /\ Len(cols) > maxCols
          THEN LET bestColumn == findBestColumn(cols, sortedItems, item)
               IN IF bestColumn # -1
                  THEN [cols EXCEPT ![bestColumn + 1] = Append(@, item.id)]
                  ELSE cols
          ELSE Append(cols, <<item.id>>)

\* One iteration of schedule's for loop: the columns after `item`.
placeItem(cols, sortedItems, item, maxCols) ==
  LET c == placedIn(cols, sortedItems, item)
  IN IF c # 0
     THEN [cols EXCEPT ![c] = Append(@, item.id)]
     ELSE IF maxCols # 0 /\ Len(cols) >= maxCols
          THEN LET bestColumn == findBestColumn(cols, sortedItems, item)
               IN IF bestColumn # -1
                  THEN [cols EXCEPT ![bestColumn + 1] = Append(@, item.id)]
                  ELSE cols
          ELSE Append(cols, <<item.id>>)

\* Mutant of calculateEfficiency: no columns counts as nothing wasted (1).
calculateEfficiencyFull(cols, its) ==
  IF Len(cols) = 0 THEN [num |-> 1, den |-> 1]
  ELSE LET totalUsedTime == Sum([k \in 1..Len(its) |-> its[k].end - its[k].start],
                                Len(its))
           totalSpan == Max({ its[k].end : k \in 1..Len(its) })
                        - Min({ its[k].start : k \in 1..Len(its) })
           totalPossibleTime == totalSpan * Len(cols)
       IN IF totalPossibleTime > 0
          THEN [num |-> totalUsedTime, den |-> totalPossibleTime]
          ELSE [num |-> 0, den |-> 1]

\* A ratio num/den with den > 0; 0 is 0/1.
calculateEfficiency(cols, its) ==
  IF Len(cols) = 0 THEN [num |-> 0, den |-> 1]
  ELSE LET totalUsedTime == Sum([k \in 1..Len(its) |-> its[k].end - its[k].start],
                                Len(its))
           totalSpan == Max({ its[k].end : k \in 1..Len(its) })
                        - Min({ its[k].start : k \in 1..Len(its) })
           totalPossibleTime == totalSpan * Len(cols)
       IN IF totalPossibleTime > 0
          THEN [num |-> totalUsedTime, den |-> totalPossibleTime]
          ELSE [num |-> 0, den |-> 1]

\* The SchedulingResult schedule returns (metadata.strategy and
\* metadata.processingTime left out).
schedulingResult(cols, its) ==
  [columns |-> cols, totalColumns |-> Len(cols),
   efficiency |-> calculateEfficiency(cols, its), inputSize |-> Len(its)]

RECURSIVE scheduleLoop(_, _, _, _)
scheduleLoop(cols, sortedItems, k, maxCols) ==
  IF k > Len(sortedItems) THEN cols
  ELSE scheduleLoop(placeItem(cols, sortedItems, sortedItems[k], maxCols),
                    sortedItems, k + 1, maxCols)

\* schedule(items, {maxColumns}) as one function
schedule(its, maxCols) ==
  schedulingResult(scheduleLoop(<<>>, sortedCopy(its).sorted, 1, maxCols), its)

\* Records handed to scheduleBy / schedulingBy are numbers; Boolean(0) is
\* false in JavaScript.  noRecord stands for the `undefined` of a failed lookup.
noRecord == -1
Boolean(v) == v # 0 /\ v # noRecord

\* scheduleBy(items, mapper, {maxColumns}); mapper is a function on the records
\* (the records of one call are distinct, so the index argument adds nothing).
scheduleBy(recs, mapper, maxCols) ==
  LET scheduleItems == [k \in 1..Len(recs) |-> mapper[recs[k]]]
      res == schedule(scheduleItems, maxCols)
      \* itemMap.set(scheduleItem.id, item): a later record overwrites
      itemMapGet(id) ==
        LET at == { k \in 1..Len(recs) : scheduleItems[k].id = id }
        IN IF at = {} THEN noRecord ELSE recs[Max(at)]
      mappedColumns ==
        [c \in 1..Len(res.columns) |->
           SelectSeq([j \in 1..Len(res.columns[c]) |-> itemMapGet(res.columns[c][j])],
                     Boolean)]
  IN [res EXCEPT !.columns = mappedColumns]

(***************************************************************************)
(* src/scheduling.ts (legacy)                                              *)
(***************************************************************************)

\* the comparator of the sort in scheduling
compareLegacy(v, w) == v.start - w.start

\* let arr = [...a]; arr.sort(...)
copyAndSort(a) ==
  [arg |-> a,
   arr |-> StableSort(a, [v \in Elements(a), w \in Elements(a) |-> compareLegacy(v, w)])]

\* Mutant of pickLoop: an item starting exactly at cur.end is skipped (>=).
RECURSIVE pickLoopStrict(_, _, _, _)
pickLoopStrict(cur, a, k, ans) ==
  IF k > Len(a) THEN [ids |-> ans, after |-> a]
  ELSE IF cur.end >= a[k].start
       THEN pickLoopStrict(cur, a, k + 1, ans)
       ELSE pickLoopStrict(a[k], Splice(a, k), k, Append(ans, a[k].id))

\* Mutant of pickLoop: the picked item is not spliced out of a.
RECURSIVE pickLoopNoSplice(_, _, _, _)
pickLoopNoSplice(cur, a, k, ans) ==
  IF k > Len(a) THEN [ids |-> ans, after |-> a]
  ELSE IF cur.end > a[k].start
       THEN pickLoopNoSplice(cur, a, k + 1, ans)
       ELSE pickLoopNoSplice(a[k], a, k + 1, Append(ans, a[k].id))

\* The for loop of schedulingPick over the copy a (cur already shifted off);
\* k is i + 1.
RECURSIVE pickLoop(_, _, _, _)
pickLoop(cur, a, k, ans) ==
  IF k > Len(a) THEN [ids |-> ans, after |-> a]
  ELSE IF cur.end > a[k].start
       THEN pickLoop(cur, a, k + 1, ans)
       ELSE pickLoop(a[k], Splice(a, k), k, Append(ans, a[k].id))

\* schedulingPick([...a]): [ids, after] is the pair returned, arg the
\* caller's array after the call (shift and splice act on the copy).
schedulingPick(arg) ==
  IF Len(arg) = 0
  THEN [ids |-> <<>>, after |-> <<>>, arg |-> arg]
  ELSE LET r == pickLoop(Head(arg), Tail(arg), 1, <<Head(arg).id>>)
       IN [ids |-> r.ids, after |-> r.after, arg |-> arg]

RECURSIVE schedulingLoop(_, _)
schedulingLoop(a, ans) ==
  IF Len(a) = 0 THEN ans
  ELSE LET r == schedulingPick(a)
       IN schedulingLoop(r.after, Append(ans, r.ids))

\* scheduling(a) as one function
scheduling(a) == schedulingLoop(copyAndSort(a).arr, <<>>)

\* Mutant of easeScan: every item is scanned from column 0 (j, not p % n).
RECURSIVE easeScanFromZero(_, _, _, _, _)
easeScanFromZero(ans, v, n, p, j) ==
  IF j >= n THEN [inserted |-> FALSE, ans |-> ans, p |-> p]
  ELSE LET c == (j % n) + 1
           column == ans[c]
           tail == IF Len(column) = 0 THEN undefined ELSE column[Len(column)]
       IN IF tail = undefined \/ tail.end <= v.start
          THEN [inserted |-> TRUE, ans |-> [ans EXCEPT ![c] = Append(@, v)],
                p |-> p + 1]
          ELSE easeScanFromZero(ans, v, n, p + 1, j + 1)

\* Mutant of easeScan: p advances only past a column that refused v.
RECURSIVE easeScanStay(_, _, _, _, _)
easeScanStay(ans, v, n, p, j) ==
  IF j >= n THEN [inserted |-> FALSE, ans |-> ans, p |-> p]
  ELSE LET c == (p % n) + 1
           column == ans[c]
           tail == IF Len(column) = 0 THEN undefined ELSE column[Len(column)]
       IN IF tail = undefined \/ tail.end <= v.start
          THEN [inserted |-> TRUE, ans |-> [ans EXCEPT ![c] = Append(@, v)],
                p |-> p]
          ELSE easeScanStay(ans, v, n, p + 1, j + 1)

\* The inner for (j) loop of schedulingEaseTry for one item v.
RECURSIVE easeScan(_, _, _, _, _)
easeScan(ans, v, n, p, j) ==
  IF j >= n THEN [inserted |-> FALSE, ans |-> ans, p |-> p]
  ELSE LET c == (p % n) + 1
           column == ans[c]
           tail == IF Len(column) = 0 THEN undefined ELSE column[Len(column)]
       IN IF tail = undefined \/ tail.end <= v.start
          THEN [inserted |-> TRUE, ans |-> [ans EXCEPT ![c] = Append(@, v)],
                p |-> p + 1]
          ELSE easeScan(ans, v, n, p + 1, j + 1)

\* The outer for (v of a) loop of schedulingEaseTry from item k on.
RECURSIVE easeTryLoop(_, _, _, _, _)
easeTryLoop(a, n, k, ans, p) ==
  IF k > Len(a) THEN [ok |-> TRUE, ans |-> ans, p |-> p]
  ELSE LET s == easeScan(ans, a[k], n, p, 0)
       IN IF ~s.inserted THEN [ok |-> FALSE, ans |-> s.ans, p |-> s.p]
          ELSE easeTryLoop(a, n, k + 1, s.ans, s.p)

\* schedulingEaseTry([...a], n): kind is "throw" (n <= 0), "false" or
\* "columns"; arg is the caller's array after the call.
schedulingEaseTry(arg, n) ==
  IF n <= 0 THEN [kind |-> "throw", columns |-> <<>>, p |-> 0, arg |-> arg]
  ELSE LET r == easeTryLoop(arg, n, 1, [c \in 1..n |-> <<>>], 0)
       IN IF r.ok
          THEN [kind |-> "columns",
                columns |-> [c \in 1..n |->
                               [j \in 1..Len(r.ans[c]) |-> r.ans[c][j].id]],
                p |-> r.p, arg |-> arg]
          ELSE [kind |-> "false", columns |-> <<>>, p |-> r.p, arg |-> arg]

\* Mutant of easeIter: the loop goes on after a trial succeeded.
easeIterNoBreak(a, k, ans) ==
  LET res == schedulingEaseTry(a, k + 1)
  IN IF res.kind # "false"
     THEN [ans |-> res.columns, brk |-> FALSE, arg |-> res.arg]
     ELSE [ans |-> ans, brk |-> FALSE, arg |-> res.arg]

\* One iteration of the for loop of schedulingEase, with loop variable k (= i).
easeIter(a, k, ans) ==
  LET res == schedulingEaseTry(a, k + 1)
  IN IF res.kind # "false"
     THEN [ans |-> res.columns, brk |-> TRUE, arg |-> res.arg]
     ELSE [ans |-> ans, brk |-> FALSE, arg |-> res.arg]

RECURSIVE schedulingEaseLoop(_, _, _)
schedulingEaseLoop(a, k, ans) ==
  IF k >= Len(a) THEN ans
  ELSE LET s == easeIter(a, k, ans)
       IN IF s.brk THEN s.ans ELSE schedulingEaseLoop(a, k + 1, s.ans)

\* schedulingEase(a) as one function
schedulingEase(a) == schedulingEaseLoop(a, 0, <<>>)

\* withSchedulingBy(a, toSchedule, scheduleFunc) with scheduleFunc = scheduling
schedulingBy(recs, toSchedule) ==
  LET k == [j \in 1..Len(recs) |-> [v |-> recs[j], s |-> toSchedule[recs[j]]]]
      res == scheduling([j \in 1..Len(k) |-> k[j].s])
      \* keyBy: a later entry overwrites
      byId(id) ==
        LET at == { j \in 1..Len(k) : k[j].s.id = id }
        IN IF at = {} THEN noRecord ELSE k[Max(at)].v
  IN [c \in 1..Len(res) |->
        SelectSeq([j \in 1..Len(res[c]) |-> byId(res[c][j])],
                  LAMBDA v : v # noRecord)]

(***************************************************************************)
(* The caller                                                              *)
(***************************************************************************)

NoResult == [fn |-> "none"]

Init ==
  /\ items \in Inputs \cup {readmeItems}
  /\ pc = "idle"
  /\ maxColumns = 0
  /\ arr = <<>>
  /\ columns = <<>>
  /\ i = 0
  /\ brk = FALSE
  /\ trials = <<>>
  /\ result = NoResult

\* A call returns: its locals are gone.  The caller makes one call.
Return(r) ==
  /\ pc' = "done"
  /\ maxColumns' = 0
  /\ arr' = <<>>
  /\ columns' = <<>>
  /\ i' = 0
  /\ brk' = FALSE
  /\ trials' = <<>>
  /\ result' = r

\* schedule(items, {maxColumns: m}) up to the for loop
ScheduleBegin(m) ==
  /\ pc = "idle"
  /\ LET c == sortedCopy(items)
     IN /\ items' = c.arg
        /\ arr' = c.sorted
  /\ pc' = "schedule"
  /\ maxColumns' = m
  /\ columns' = <<>>
  /\ i' = 0
  /\ result' = NoResult
  /\ UNCHANGED <<brk, trials>>

\* one iteration of the for loop of schedule
SchedulePlace ==
  /\ pc = "schedule"
  /\ i < Len(arr)
  /\ columns' = placeItem(columns, arr, arr[i + 1], maxColumns)
  /\ i' = i + 1
  /\ UNCHANGED <<items, pc, maxColumns, arr, brk, trials, result>>

ScheduleReturn ==
  /\ pc = "schedule"
  /\ i = Len(arr)
  /\ LET r == schedulingResult(columns, items)
     IN Return([fn |-> "schedule", maxColumns |-> maxColumns,
                columns |-> r.columns, totalColumns |-> r.totalColumns,
                efficiency |-> r.efficiency, inputSize |-> r.inputSize])
  /\ UNCHANGED items

\* scheduling(items) up to the while loop
SchedulingBegin ==
  /\ pc = "idle"
  /\ LET c == copyAndSort(items)
     IN /\ items' = c.arg
        /\ arr' = c.arr
  /\ pc' = "scheduling"
  /\ columns' = <<>>
  /\ result' = NoResult
  /\ UNCHANGED <<maxColumns, i, brk, trials>>

\* one iteration of the while loop of scheduling
SchedulingPick ==
  /\ pc = "scheduling"
  /\ Len(arr) > 0
  /\ LET r == schedulingPick(arr)
     IN /\ arr' = r.after
        /\ columns' = Append(columns, r.ids)
  /\ UNCHANGED <<items, pc, maxColumns, i, brk, trials, result>>

SchedulingReturn ==
  /\ pc = "scheduling"
  /\ Len(arr) = 0
  /\ Return([fn |-> "scheduling", columns |-> columns])
  /\ UNCHANGED items

\* schedulingEase(items) up to the for loop
EaseBegin ==
  /\ pc = "idle"
  /\ pc' = "schedulingEase"
  /\ columns' = <<>>
  /\ i' = 0
  /\ brk' = FALSE
  /\ trials' = <<>>
  /\ result' = NoResult
  /\ UNCHANGED <<items, maxColumns, arr>>

\* one iteration of the for loop of schedulingEase
EaseTrial ==
  /\ pc = "schedulingEase"
  /\ ~brk
  /\ i < Len(items)
  /\ LET s == easeIter(items, i, columns)
     IN /\ items' = s.arg
        /\ columns' = s.ans
        /\ brk' = s.brk
        /\ i' = IF s.brk THEN i ELSE i + 1
  /\ trials' = Append(trials, i + 1)
  /\ UNCHANGED <<pc, maxColumns, arr, result>>

EaseReturn ==
  /\ pc = "schedulingEase"
  /\ brk \/ i >= Len(items)
  /\ Return([fn |-> "schedulingEase", columns |-> columns, trials |-> trials])
  /\ UNCHANGED items

\* schedulingPick(items)
PickCall ==
  /\ pc = "idle"
  /\ LET r == schedulingPick(items)
     IN /\ items' = r.arg
        /\ Return([fn |-> "schedulingPick", ids |-> r.ids, after |-> r.after])

\* schedulingEaseTry(items, n)
EaseTryCall(n) ==
  /\ pc = "idle"
  /\ LET r == schedulingEaseTry(items, n)
     IN /\ items' = r.arg
        /\ Return([fn |-> "schedulingEaseTry", n |-> n, kind |-> r.kind,
                   columns |-> r.columns, p |-> r.p])

\* The records of a *By call: the numbers base, base + 1, ... in this order,
\* the k-th of them mapped to items[k].
Records(base) == [k \in 1..Len(items) |-> base + k - 1]
Mapper(base) == [r \in base..(base + Len(items) - 1) |-> items[r - base + 1]]

\* scheduleBy(records, mapper, {maxColumns: m})
ScheduleByCall(base, m) ==
  /\ pc = "idle"
  /\ LET r == scheduleBy(Records(base), Mapper(base), m)
     IN Return([fn |-> "scheduleBy", records |-> Records(base), maxColumns |-> m,
                columns |-> r.columns, totalColumns |-> r.totalColumns,
                efficiency |-> r.efficiency, inputSize |-> r.inputSize])
  /\ UNCHANGED items

\* schedulingBy(records, toSchedule)
SchedulingByCall(base) ==
  /\ pc = "idle"
  /\ Return([fn |-> "schedulingBy", records |-> Records(base),
             columns |-> schedulingBy(Records(base), Mapper(base))])
  /\ UNCHANGED items

Next ==
  \/ \E m \in 0..MaxCols : ScheduleBegin(m)
  \/ SchedulePlace
  \/ ScheduleReturn
  \/ SchedulingBegin
  \/ SchedulingPick
  \/ SchedulingReturn
  \/ EaseBegin
  \/ EaseTrial
  \/ EaseReturn
  \/ PickCall
  \/ \E n \in 0..MaxLen : EaseTryCall(n)
  \/ \E base \in 0..1, m \in 0..MaxCols : ScheduleByCall(base, m)
  \/ \E base \in 0..1 : SchedulingByCall(base)

Spec == Init /\ [][Next]_vars

(***************************************************************************)
(* Properties                                                              *)
(***************************************************************************)

\* The input item with this id (ids are unique).
ItemOf(id) == items[CHOOSE k \in 1..Len(items) : items[k].id = id]

\* Every interval of the input has start <= end / start < end.
Valid == \A k \in 1..Len(items) : items[k].start <= items[k].end
Positive == \A k \in 1..Len(items) : items[k].start < items[k].end

\* Adjacent ids of every column, in placement order, do not overlap.
NoOverlap(cols) ==
  \A c \in 1..Len(cols) : \A j \in 1..(Len(cols[c]) - 1) :
    ItemOf(cols[c][j]).end <= ItemOf(cols[c][j + 1]).start

\* The places <<column, position>> at which id occurs in cols.
Places(cols, id) ==
  { q \in (1..Len(cols)) \X (1..Len(items)) :
      q[2] <= Len(cols[q[1]]) /\ cols[q[1]][q[2]] = id }

\* The number of ids in cols.
Size(cols) == Sum([c \in 1..Len(cols) |-> Len(cols[c])], Len(cols))

\* The largest number of input intervals whose half-open ranges [start, end)
\* share a point (a largest group of such intervals shares the latest of its
\* starts, so the starts are the points to look at).
MaxOverlap ==
  Max({ Cardinality({ k \in 1..Len(items) :
                        items[k].start <= t /\ t < items[k].end }) :
        t \in Time \cup { items[k].start : k \in 1..Len(items) } })

\* C1: in every column returned by schedule (with or without maxColumns), by
\* scheduling, by a successful schedulingEaseTry and by schedulingEase, each
\* interval ends no later than the next one of the column starts.
C1_NoOverlap ==
  (pc = "done"
   /\ result.fn \in {"schedule", "scheduling", "schedulingEaseTry", "schedulingEase"})
  => NoOverlap(result.columns)

\* A round-robin trial with fewer columns than intervals succeeded.
C1_Witness ==
  /\ pc = "done"
  /\ result.fn = "schedulingEaseTry"
  /\ result.kind = "columns"
  /\ result.n < Len(items)
  /\ \E c \in 1..Len(result.columns) : Len(result.columns[c]) >= 2

\* C2: without maxColumns, the columns returned by schedule, by scheduling and
\* by schedulingEase hold every input id exactly once.
C2_Cardinality ==
  (pc = "done"
   /\ \/ result.fn = "schedule" /\ result.maxColumns = 0
      \/ result.fn \in {"scheduling", "schedulingEase"})
  => /\ Size(result.columns) = Len(items)
     /\ \A k \in 1..Len(items) : Cardinality(Places(result.columns, k)) = 1

\* scheduling returned several columns, one of them with several ids.
C2_Witness ==
  /\ pc = "done"
  /\ result.fn = "scheduling"
  /\ Len(items) = MaxLen
  /\ Len(result.columns) >= 2
  /\ \E c \in 1..Len(result.columns) : Len(result.columns[c]) >= 2

\* C3 as stated: for every input with start <= end and no maxColumns, schedule
\* returns as many columns as the largest number of intervals whose [start, end)
\* share a point.
C3_GreedyMinimality ==
  (pc = "done" /\ result.fn = "schedule" /\ result.maxColumns = 0 /\ Valid)
  => result.totalColumns = MaxOverlap

\* C3 amended: the same for every input with start < end (no zero-length
\* interval).
C3_GreedyMinimalityPositive ==
  (pc = "done" /\ result.fn = "schedule" /\ result.maxColumns = 0 /\ Positive)
  => result.totalColumns = MaxOverlap

\* MaxLen intervals of positive length, given out of start order, some
\* overlapping and some sharing a column.
C3_Witness ==
  /\ pc = "done"
  /\ result.fn = "schedule"
  /\ result.maxColumns = 0
  /\ Positive
  /\ Len(items) = MaxLen
  /\ \E k \in 1..(Len(items) - 1) : items[k].start > items[k + 1].start
  /\ result.totalColumns = 2

\* C4: for a non-empty input, schedulingEase runs the trials n = 1, 2, ... in
\* this order, stops at the first n whose trial succeeds, and returns that
\* trial's columns; every trial before it failed.
C4_MinimalSearch ==
  (pc = "done" /\ result.fn = "schedulingEase" /\ Len(items) > 0)
  => LET n == Len(result.trials)
     IN /\ n \in 1..Len(items)
        /\ result.trials = [k \in 1..n |-> k]
        /\ schedulingEaseTry(items, n).kind = "columns"
        /\ result.columns = schedulingEaseTry(items, n).columns
        /\ \A m \in 1..(n - 1) : schedulingEaseTry(items, m).kind = "false"

\* The search stopped after more than one trial and before n = len(a).
C4_Witness ==
  /\ pc = "done"
  /\ result.fn = "schedulingEase"
  /\ Len(result.trials) > 1
  /\ Len(result.trials) < Len(items)

\* C5: for a non-empty input a with any start/end values, schedulingEaseTry(a,
\* len(a)) succeeds with the k-th interval alone in column k, and the loop of
\* schedulingEase ends by a successful trial after at most len(a) trials (i
\* moves on only past a failed trial and never reaches len(a)).
C5_SearchTerminates ==
  /\ (pc = "done" /\ result.fn = "schedulingEaseTry"
      /\ result.n = Len(items) /\ Len(items) > 0)
     => /\ result.kind = "columns"
        /\ result.columns = [c \in 1..Len(items) |-> <<items[c].id>>]
  /\ (pc = "schedulingEase" /\ Len(items) > 0)
     => /\ Len(trials) <= Len(items)
        /\ i < Len(items)
  /\ (pc = "done" /\ result.fn = "schedulingEase" /\ Len(items) > 0)
     => /\ Len(result.trials) <= Len(items)
        /\ Size(result.columns) = Len(items)

\* A trial with n = len(a) on intervals that could have shared a column, one of
\* them with end < start.
C5_Witness ==
  /\ pc = "done"
  /\ result.fn = "schedulingEaseTry"
  /\ result.n = Len(items)
  /\ Len(items) >= 2
  /\ ~Valid
  /\ \E k \in 1..(Len(items) - 1) : items[k].end <= items[k + 1].start

\* C6 as stated: for every input with start <= end and every maxColumns, the
\* efficiency schedule returns lies in [0, 1].
C6_EfficiencyRange ==
  (pc = "done" /\ result.fn = "schedule" /\ Valid)
  => /\ 0 <= result.efficiency.num
     /\ result.efficiency.num <= result.efficiency.den

\* The existing columns whose last interval ends no later than item starts.
Fitting(cols, item) ==
  { c \in 1..Len(cols) :
      Len(cols[c]) > 0 /\ ItemOf(cols[c][Len(cols[c])]).end <= item.start }

\* C7: with maxColumns = m >= 1, schedule never holds more than m columns; an
\* interval that fits an existing column goes to the first such column, and one
\* that fits none once m columns exist goes nowhere (the call still returns).
C7_MaxColumns ==
  /\ []((pc = "schedule" /\ maxColumns >= 1) => Len(columns) <= maxColumns)
  /\ []((pc = "done" /\ result.fn = "schedule" /\ result.maxColumns >= 1)
        => /\ result.totalColumns <= result.maxColumns
           /\ Len(result.columns) = result.totalColumns)
  /\ [][(pc = "schedule" /\ maxColumns >= 1)
        => IF pc' = "schedule"
           THEN LET item == arr[i + 1]
                    fit == Fitting(columns, item)
                IN /\ fit # {}
                      => columns' = [columns EXCEPT ![Min(fit)] = Append(@, item.id)]
                   /\ (fit = {} /\ Len(columns) >= maxColumns)
                      => columns' = columns
           ELSE pc' = "done" /\ result'.fn = "schedule" /\ result'.columns = columns
       ]_vars

\* schedule returned with maxColumns columns, an interval dropped and another
\* one placed in an existing column.
C7_Witness ==
  /\ pc = "done"
  /\ result.fn = "schedule"
  /\ result.maxColumns >= 1
  /\ result.totalColumns = result.maxColumns
  /\ Size(result.columns) < Len(items)
  /\ \E c \in 1..Len(result.columns) : Len(result.columns[c]) >= 2

\* C8 as stated: for every input with start <= end, in any order,
\* schedulingEase returns no more columns than the greedy scheduling.
C8_EaseMinimal ==
  (pc = "done" /\ result.fn = "schedulingEase" /\ Valid)
  => Len(result.columns) <= Len(scheduling(items))

\* C9: no call changes the caller's input array.
C9_InputReadOnly == [][items' = items]_vars

\* A call on an input that is not in start order, or that schedulingPick would
\* split, has returned.
C9_Witness ==
  /\ pc = "done"
  /\ result.fn \in {"schedule", "scheduling", "schedulingPick"}
  /\ Len(items) >= 2
  /\ sortByStart(items) # items
  /\ schedulingPick(items).after # items

\* C10 as stated: the columns of scheduleBy(records, mapper, opts), each record
\* replaced by its mapped id, are the columns of schedule(records.map(mapper),
\* opts).
C10_RoundTrip ==
  (pc = "done" /\ result.fn = "scheduleBy")
  => LET idOf(r) == items[CHOOSE k \in 1..Len(items) : result.records[k] = r].id
     IN [c \in 1..Len(result.columns) |->
           [j \in 1..Len(result.columns[c]) |-> idOf(result.columns[c][j])]]
        = schedule(items, result.maxColumns).columns

\* C11: on the empty input, schedule returns no columns, totalColumns 0 and
\* efficiency 0 whatever maxColumns is, and schedulingEase and scheduling return
\* no columns, schedulingEase without having run a trial.
C11_EmptyInput ==
  (pc = "done" /\ Len(items) = 0)
  => /\ result.fn = "schedule"
        => /\ result.columns = <<>>
           /\ result.totalColumns = 0
           /\ result.efficiency.num = 0
     /\ result.fn = "scheduling" => result.columns = <<>>
     /\ result.fn = "schedulingEase"
        => result.columns = <<>> /\ result.trials = <<>>

\* schedule([], {maxColumns: m}) with m >= 1 has returned.
C11_Witness ==
  /\ pc = "done"
  /\ Len(items) = 0
  /\ result.fn = "schedule"
  /\ result.maxColumns >= 1

\* C12: without maxColumns, schedule takes the intervals in ascending start
\* order, ties in input order; each goes to the lowest-index column whose last
\* interval has end <= its start, and opens a new last column only when there
\* is none; the README's items give [[a, c], [b, e], [d]].
C12_FirstFit ==
  /\ []((pc = "schedule" /\ maxColumns = 0)
        => /\ Len(arr) = Len(items)
           /\ \A k \in 1..Len(items) : \E j \in 1..Len(arr) : arr[j] = items[k]
           /\ \A j \in 1..Len(arr) : \A k \in (j + 1)..Len(arr) :
                \/ arr[j].start < arr[k].start
                \/ arr[j].start = arr[k].start /\ arr[j].id < arr[k].id)
  /\ [][(pc = "schedule" /\ maxColumns = 0 /\ pc' = "schedule")
        => LET item == arr[i + 1]
               fit == Fitting(columns, item)
           IN /\ i' = i + 1
              /\ fit # {}
                 => columns' = [columns EXCEPT ![Min(fit)] = Append(@, item.id)]
              /\ fit = {} => columns' = Append(columns, <<item.id>>)
       ]_vars
  /\ []((pc = "done" /\ result.fn = "schedule" /\ result.maxColumns = 0
         /\ items = readmeItems)
        => result.columns = << <<1, 3>>, <<2, 5>>, <<4>> >>)

\* schedule has returned on the README's items.
C12_Witness ==
  /\ pc = "done"
  /\ result.fn = "schedule"
  /\ result.maxColumns = 0
  /\ items = readmeItems
  /\ result.totalColumns = 3

\* The round-robin rule, stated per interval: from interval k on, with the
\* columns cols (of items) and the pointer p, each interval goes to the column
\* (p + d) mod n for the least d < n whose column is empty or ends no later
\* than the interval starts, and p moves past the d + 1 columns examined.
RECURSIVE RoundRobin(_, _, _, _, _)
RoundRobin(a, n, k, cols, p) ==
  IF k > Len(a) THEN [ok |-> TRUE, cols |-> cols, p |-> p]
  ELSE LET accepts(c) ==
             Len(cols[c]) = 0 \/ cols[c][Len(cols[c])].end <= a[k].start
           offs == { d \in 0..(n - 1) : accepts(((p + d) % n) + 1) }
       IN IF offs = {} THEN [ok |-> FALSE, cols |-> cols, p |-> p]
          ELSE LET d == Min(offs)
               IN RoundRobin(a, n, k + 1,
                             [cols EXCEPT ![((p + d) % n) + 1] = Append(@, a[k])],
                             p + d + 1)

\* C13: schedulingEaseTry(a, n) with n >= 1 places the intervals in input order
\* by the round-robin rule with one pointer p that starts at 0 and is never
\* reset; it returns false, and no columns, if some interval is accepted by
\* none of the n columns, and otherwise exactly n columns of ids.
C13_RoundRobinRule ==
  (pc = "done" /\ result.fn = "schedulingEaseTry" /\ result.n >= 1)
  => LET ref == RoundRobin(items, result.n, 1, [c \in 1..result.n |-> <<>>], 0)
     IN IF ref.ok
        THEN /\ result.kind = "columns"
             /\ Len(result.columns) = result.n
             /\ result.columns
                = [c \in 1..result.n |->
                     [j \in 1..Len(ref.cols[c]) |-> ref.cols[c][j].id]]
             /\ result.p = ref.p
        ELSE result.kind = "false" /\ result.columns = <<>>

\* A successful trial in which a column refused an interval and the pointer
\* went round.
C13_Witness ==
  /\ pc = "done"
  /\ result.fn = "schedulingEaseTry"
  /\ result.kind = "columns"
  /\ result.n >= 2
  /\ result.p > Len(items)
  /\ result.p > result.n

\* C14: scheduling (column by column) and schedule without maxColumns (interval
\* by interval) return the same columns, in the same order, for every input.
C14_GreedyAgree ==
  /\ (pc = "done" /\ result.fn = "scheduling")
     => result.columns = schedule(items, 0).columns
  /\ (pc = "done" /\ result.fn = "schedule" /\ result.maxColumns = 0)
     => result.columns = scheduling(items)

\* scheduling has returned several columns for an input out of start order
\* with touching intervals in one column.
C14_Witness ==
  /\ pc = "done"
  /\ result.fn = "scheduling"
  /\ Len(result.columns) >= 2
  /\ sortByStart(items) # items
  /\ \E c \in 1..Len(result.columns) : \E j \in 1..(Len(result.columns[c]) - 1) :
       ItemOf(result.columns[c][j]).end = ItemOf(result.columns[c][j + 1]).start

\* C15: with maxColumns = m >= 1 the columns of schedule are the first
\* min(m, k) columns of the columns without maxColumns (k of them), and
\* findBestColumn, whenever it is reached, finds no column.
C15_Truncation ==
  /\ (pc = "done" /\ result.fn = "schedule" /\ result.maxColumns >= 1)
     => LET free == schedule(items, 0).columns
            kept == IF result.maxColumns < Len(free)
                    THEN result.maxColumns ELSE Len(free)
        IN result.columns = SubSeq(free, 1, kept)
  /\ (pc = "schedule" /\ maxColumns >= 1 /\ i < Len(arr)
      /\ placedIn(columns, arr, arr[i + 1]) = 0 /\ Len(columns) >= maxColumns)
     => findBestColumn(columns, arr, arr[i + 1]) = -1

\* schedule has returned fewer columns than it does without maxColumns, and
\* placed an interval after one that it dropped.
C15_Witness ==
  /\ pc = "done"
  /\ result.fn = "schedule"
  /\ result.maxColumns >= 1
  /\ Len(schedule(items, 0).columns) > result.maxColumns
  /\ LET sorted == sortByStart(items)
     IN \E j \in 1..Len(sorted) : \E k \in (j + 1)..Len(sorted) :
          /\ Places(result.columns, sorted[j].id) = {}
          /\ Places(result.columns, sorted[k].id) # {}

====
